---- MODULE Spec2Model ----
(***************************************************************************)
(* A model of the code testing platform: the test generator               *)
(* (src/services/ai_generator.py) and the compile / run / grade pipeline  *)
(* (src/services/code_runner.py, src/services/compiler.py).               *)
(*                                                                         *)
(* Python exceptions are modelled as values: every operator that models a *)
(* Python function returns [exc |-> BOOLEAN, val |-> ...], exc = TRUE     *)
(* meaning that the call raised instead of returning.                     *)
(***************************************************************************)
EXTENDS Integers, Sequences, FiniteSets, TLC

VARIABLES
    \* _calculate_balanced_weights applied to one argument
    wN, wOut, wPc,
    \* _ensure_test_count applied to one parsed suite
    padTests, padReq, padOut, padPc,
    \* generate_tests applied to one request and one model outcome
    reqCount, resp, genOut, genPc,
    \* ... the number of tests the prompt sent to the model asks for, and what
    \* _parse_response returned (history)
    genPrompt, genParsed,
    \* run_tests, per grading request: the arguments ...
    lang, tests, maxGrade,
    \* ... the position in run_tests, the loop variable i, total_grade, result
    pc, idx, total, report,
    \* ... the executable_path compile_code returned
    exePath,
    \* the staging directory: path -> what the file holds
    fs,
    \* history: who wrote each path, the suites as they were passed in, the
    \* compile_code and run_code calls of each request
    writers, tests0, compileLog, execLog,
    \* history: the container commands each request issued (subprocess.run(cmd))
    cmds,
    \* history: the calls of run_code made directly, outside run_tests
    rcLog

weightVars == <<wN, wOut, wPc>>
padVars == <<padTests, padReq, padOut, padPc>>
genVars == <<reqCount, resp, genOut, genPc, genPrompt, genParsed>>
runVars == <<lang, tests, maxGrade, pc, idx, total, report, exePath, fs,
             writers, tests0, compileLog, execLog, cmds, rcLog>>
vars == <<weightVars, padVars, genVars, runVars>>

----------------------------------------------------------------------------
(* Program constants *)

\* config.py: MAX_TEST_COUNT = 30
MAX_TEST_COUNT == 30

\* config.py: MAX_MEMORY_MB = 128
MAX_MEMORY_MB == 128

\* config.py: MAX_CPU_LIMIT = 1.0
MAX_CPU_LIMIT == 1

\* config.py: SANDBOX_USER = 'coderunner'
SANDBOX_USER == "coderunner"

\* ai_generator.py: the literal 100 that the weights of a suite add up to
TotalWeight == 100

\* ai_generator.py: "difficulty": 3, the default and the fallback difficulty
DefaultDifficulty == 3

(* Bounds of the model *)

\* _calculate_balanced_weights is applied to -WeightSlack .. TotalWeight + WeightSlack
WeightSlack == 5

\* requested counts range over -ReqSlack .. MAX_TEST_COUNT + ReqSlack
ReqSlack == 2

\* the model's response holds at most MAX_TEST_COUNT + ItemSlack entries
ItemSlack == 1

\* _ensure_test_count is applied to suites of 1 .. MaxPadK entries
MaxPadK == 2

\* ... and extends them to at most MaxPadK + MaxPadExtra entries
MaxPadExtra == 2

----------------------------------------------------------------------------
(* Helpers *)

Min(a, b) == IF a < b THEN a ELSE b

Max(a, b) == IF a > b THEN a ELSE b

RECURSIVE SumSeq(_)
SumSeq(s) == IF s = <<>> THEN 0 ELSE Head(s) + SumSeq(Tail(s))

NoEntries == [i \in {} |-> 0]

Ok(v) == [exc |-> FALSE, val |-> v]

RaisedWeights == [exc |-> TRUE, val |-> <<>>]

RaisedSuite == [exc |-> TRUE, val |-> [count |-> 0, entries |-> NoEntries]]

----------------------------------------------------------------------------
(* TestGenerator._calculate_balanced_weights *)

\* a variant: the remainder loop stops one early (range(remainder - 1))
DistributeWeightsShort(count, base_weight, remainder) ==
    [i \in 1..count |-> IF i < remainder THEN base_weight + 1 ELSE base_weight]

\* a variant: the remainder goes to the last positions instead of the first
DistributeWeightsTail(count, base_weight, remainder) ==
    [i \in 1..count |-> IF i > count - remainder THEN base_weight + 1 ELSE base_weight]

\* [base_weight for _ in range(count)], then weights[i] += 1 for i in range(remainder)
DistributeWeights(count, base_weight, remainder) ==
    [i \in 1..count |-> IF i <= remainder THEN base_weight + 1 ELSE base_weight]

\* Python's // and % for the dividend 100.  The code returns before dividing by 0;
\* for a negative count range(count) is empty, the list is empty and the sum
\* assertion fails.
CalculateBalancedWeights(count) ==
    IF count = 0 THEN Ok(<<>>)
    ELSE IF count < 0 THEN RaisedWeights
    ELSE LET base_weight == TotalWeight \div count
             remainder == TotalWeight % count
             weights == DistributeWeights(count, base_weight, remainder)
         IN  IF SumSeq(weights) = TotalWeight THEN Ok(weights) ELSE RaisedWeights

----------------------------------------------------------------------------
(* TestGenerator._generate_fallback_tests *)

FallbackEntry(i, base_weight, remainder) ==
    [id |-> i,
     value |-> base_weight + (IF i <= remainder THEN 1 ELSE 0),
     input |-> "fallback_test_input_" \o ToString(i),
     output |-> "fallback_test_output_" \o ToString(i),
     explanation |-> "Fallback test case. The AI failed to generate tests. Please manually create tests.",
     difficulty |-> DefaultDifficulty]

\* 100 // count raises ZeroDivisionError for count = 0; for a negative count
\* range(1, count + 1) is empty and the result is {"count": count}.
GenerateFallbackTests(count) ==
    IF count = 0 THEN RaisedSuite
    ELSE IF count < 0 THEN Ok([count |-> count, entries |-> NoEntries])
    ELSE LET base_weight == TotalWeight \div count
             remainder == TotalWeight % count
         IN  Ok([count |-> count,
                 entries |-> [i \in 1..count |-> FallbackEntry(i, base_weight, remainder)]])

----------------------------------------------------------------------------
(* The model's answer.                                                     *)
(*                                                                         *)
(* resp.kind = "raise": generate_content (or response.text) raises.        *)
(* resp.kind = "json":  json.loads accepts the text between the first '['  *)
(*   and the last ']' (or the whole stripped text).  resp.tag = "list": the *)
(*   value is a sequence, resp.items its elements in order (an element     *)
(*   with isObj = FALSE is anything without a .get method: a number, a     *)
(*   string, a nested list; a JSON string is a sequence of such elements). *)
(*   resp.tag = "nonseq": the value is an object, a number, true, false or *)
(*   null, on which len() or the slice [:count] raises.                    *)
(* resp.kind = "text":  json.loads raises JSONDecodeError; resp.items are  *)
(*   the matches of the four-field pattern, in order of appearance.        *)
(*                                                                         *)
(* item.has is the set of keys the element holds; test.get(key, default)   *)
(* is Get(item, key, default).                                             *)
(***************************************************************************)

Get(item, key, default) == IF key \in item.has THEN item[key] ELSE default

\* a variant: the last count elements are kept (s[-count:])
SliceToTail(s, count) ==
    IF count > 0 THEN SubSeq(s, Len(s) - Min(Len(s), count) + 1, Len(s)) ELSE <<>>

\* s[:count] of Python, for any integer count
SliceTo(s, count) ==
    IF count >= 0 THEN SubSeq(s, 1, Min(Len(s), count))
    ELSE SubSeq(s, 1, Max(0, Len(s) + count))

\* a // b and a % b of Python for a >= 0 and b # 0 (floor division)
PyFloorDiv(a, b) == IF b > 0 THEN a \div b ELSE -((a + (-b) - 1) \div (-b))

PyMod(a, b) == a - b * PyFloorDiv(a, b)

----------------------------------------------------------------------------
(* TestGenerator._extract_tests_manually *)

ManualEntry(i, m, base_weight, remainder) ==
    [id |-> i,
     value |-> base_weight + (IF i <= remainder THEN 1 ELSE 0),
     input |-> m.input,
     output |-> m.output,
     explanation |-> m.explanation,
     difficulty |-> m.difficulty]

ExtractTestsManually(matches, count) ==
    IF matches = <<>> THEN GenerateFallbackTests(count)
    ELSE LET test_count == Min(Len(matches), count)
         IN  IF test_count = 0
             THEN GenerateFallbackTests(count)   \* 100 // 0 raises, the handler falls back
             ELSE LET base_weight == PyFloorDiv(TotalWeight, test_count)
                      remainder == PyMod(TotalWeight, test_count)
                      kept == SliceTo(matches, count)
                  IN  Ok([count |-> test_count,
                          entries |-> [i \in 1..Len(kept) |->
                                         ManualEntry(i, kept[i], base_weight, remainder)]])

----------------------------------------------------------------------------
(* TestGenerator._parse_response *)

StrictEntry(i, test, weights) ==
    [id |-> i,
     value |-> weights[i],
     input |-> Get(test, "input", ""),
     output |-> Get(test, "output", ""),
     explanation |-> Get(test, "explanation", ""),
     difficulty |-> Get(test, "difficulty", DefaultDifficulty)]

\* a variant: an element that is no object is skipped and the objects are kept
StrictParseSkipping(items, count) ==
    LET kept == SelectSeq(SliceTo(items, count), LAMBDA t : t.isObj)
        w == CalculateBalancedWeights(Len(kept))
    IN  IF w.exc THEN RaisedSuite
        ELSE Ok([count |-> Len(kept),
                 entries |-> [i \in 1..Len(kept) |-> StrictEntry(i, kept[i], w.val)]])

\* the try block of lines 100-123; exc = TRUE is an exception other than
\* JSONDecodeError, which the outer handler turns into the fallback suite
StrictParse(items, count) ==
    LET test_count == Min(Len(items), count)
        w == CalculateBalancedWeights(test_count)
        kept == SliceTo(items, count)
    IN  IF w.exc THEN RaisedSuite
        ELSE IF \E i \in 1..Len(kept) : ~kept[i].isObj THEN RaisedSuite
        ELSE Ok([count |-> test_count,
                 entries |-> [i \in 1..Len(kept) |-> StrictEntry(i, kept[i], w.val)]])

ParseResponse(response, count) ==
    IF response.kind = "text" THEN ExtractTestsManually(response.items, count)
    ELSE LET r == IF response.tag = "list" THEN StrictParse(response.items, count)
                  ELSE RaisedSuite
         IN  IF r.exc THEN GenerateFallbackTests(count) ELSE r

----------------------------------------------------------------------------
(* TestGenerator._ensure_test_count *)

ModifiedInput(input_text, i) == input_text \o "\n# Modified version " \o ToString(i)

InSeq(x, s) == \E j \in 1..Len(s) : s[j] = x

\* if input_text in existing_inputs: input_text = f"{input_text}\n# Modified version {i}"
PadInput(input_text, existing_inputs, i) ==
    IF InSeq(input_text, existing_inputs) THEN ModifiedInput(input_text, i) ELSE input_text

\* a variant: the round starts one entry late ((i - current_count) % current_count + 1)
BaseTestIdxShifted(i, current_count) == ((i - current_count) % current_count) + 1

\* base_test_idx = (i - current_count - 1) % current_count + 1
BaseTestIdx(i, current_count) == ((i - current_count - 1) % current_count) + 1

PadEntry(i, base_test_idx, base_test, input_text, new_weights) ==
    [id |-> i,
     value |-> new_weights[i],
     input |-> input_text,
     output |-> base_test.output,
     explanation |-> "Additional test based on test " \o ToString(base_test_idx),
     difficulty |-> base_test.difficulty]

\* the loop of lines 184-207, from id i on
RECURSIVE PadLoop(_, _, _, _, _, _)
PadLoop(entries, existing_inputs, i, current_count, requested_count, new_weights) ==
    IF i > requested_count THEN entries
    ELSE LET base_test_idx == BaseTestIdx(i, current_count)
             base_test == entries[base_test_idx]
             input_text == PadInput(base_test.input, existing_inputs, i)
         IN  PadLoop(entries @@ (i :> PadEntry(i, base_test_idx, base_test, input_text, new_weights)),
                     Append(existing_inputs, input_text),
                     i + 1, current_count, requested_count, new_weights)

\* a variant: the existing entries get the weight of the next position
\* (new_weights[i] of Python, without the - 1)
ReweightShifted(entries, current_count, new_weights) ==
    [i \in DOMAIN entries |->
        IF i \in 1..current_count THEN [entries[i] EXCEPT !.value = new_weights[i + 1]]
        ELSE entries[i]]

\* a variant: the existing entries keep the weights they were parsed with
ReweightSkipped(entries, current_count, new_weights) == entries

\* lines 177-179: tests[str(i)]["value"] = new_weights[i-1]
Reweight(entries, current_count, new_weights) ==
    [i \in DOMAIN entries |->
        IF i \in 1..current_count THEN [entries[i] EXCEPT !.value = new_weights[i]]
        ELSE entries[i]]

EnsureTestCount(parsed, requested_count) ==
    LET current_count == parsed.count
        w == CalculateBalancedWeights(requested_count)
    IN  IF current_count >= requested_count THEN Ok(parsed)
        ELSE IF w.exc THEN RaisedSuite
        ELSE IF current_count = 0 THEN RaisedSuite   \* % 0 in the first iteration
        ELSE LET reweighted == Reweight(parsed.entries, current_count, w.val)
                 existing_inputs == [i \in 1..current_count |-> reweighted[i].input]
             IN  Ok([count |-> requested_count,
                     entries |-> PadLoop(reweighted, existing_inputs, current_count + 1,
                                         current_count, requested_count, w.val)])

----------------------------------------------------------------------------
(* TestGenerator.generate_tests *)

\* a variant: only the lower limit is applied (max(1, count))
ClampCountLowerOnly(count) == Max(1, count)

\* a variant: only the upper limit is applied (min(count, MAX_TEST_COUNT))
ClampCountUpperOnly(count) == Min(count, MAX_TEST_COUNT)

\* line 45: count = min(max(1, count), MAX_TEST_COUNT)
ClampCount(count) == Min(Max(1, count), MAX_TEST_COUNT)

\* line 48 and _create_prompt: AI_PROMPT.format(..., count=count), the count
\* the prompt asks the model for
PromptCount(count) == count

\* lines 47-67, with count already clamped
GenerateBody(response, count) ==
    IF response.kind = "raise" THEN RaisedSuite
    ELSE LET parsed == ParseResponse(response, count)
         IN  IF parsed.exc THEN parsed
             ELSE IF parsed.val.count < count THEN EnsureTestCount(parsed.val, count)
             ELSE parsed

\* line 60: tests = self._parse_response(response.text, count), the suite as it
\* is before line 63 looks at it; exc = TRUE: the model call raised and line 60
\* was not reached
ParseStage(requested, response) ==
    IF response.kind = "raise" THEN RaisedSuite
    ELSE ParseResponse(response, ClampCount(requested))

\* The clamp is the first statement of the try block and cannot raise for an
\* integer, so the handler of line 69 sees the clamped count.
GenerateTests(requested, response) ==
    LET count == ClampCount(requested)
        r == GenerateBody(response, count)
    IN  IF r.exc THEN GenerateFallbackTests(count) ELSE r

----------------------------------------------------------------------------
(* The grading pipeline: CodeRunner.run_tests, CompilerService.compile_code, *)
(* CodeRunner.run_code.                                                      *)
(*                                                                           *)
(* Texts (outputs) are sequences of one-character strings.  max_grade is     *)
(* kept in tenths, a test's score and total_grade in thousandths, and the    *)
(* reported grade in hundredths of a grade point, so that round(., 2) has    *)
(* something to round.                                                       *)
(*                                                                           *)
(* result['tests'] = tests.copy() is a shallow copy: the report's entries    *)
(* are the very objects of the suite that was passed in, so the model keeps  *)
(* one copy of the entries, tests[r], which is both.  entry.keys is the set  *)
(* of outcome keys ('run_output', 'status', 'error') the entry holds.        *)
(*****************************************************************************)

\* the requests that may be in flight together
NumRequests == 2

\* a suite passed to run_tests has count <= MaxTests
MaxTests == 2

\* run_code is called directly at most MaxCalls times in a row
MaxCalls == 2

Requests == 1..NumRequests

SupportedLanguages == {"c", "cpp", "python", "java"}

Languages == SupportedLanguages \cup {"ruby"}

Whitespace == {" ", "\n", "\t", "\r"}

\* str.strip(): drop whitespace from the left end, then from the right end
RECURSIVE LStrip(_)
LStrip(s) == IF s # <<>> /\ Head(s) \in Whitespace THEN LStrip(Tail(s)) ELSE s

RECURSIVE RStrip(_)
RStrip(s) ==
    IF s # <<>> /\ s[Len(s)] \in Whitespace THEN RStrip(SubSeq(s, 1, Len(s) - 1)) ELSE s

\* a variant: whitespace is dropped everywhere, not only at the two ends
StripEverywhere(s) == SelectSeq(s, LAMBDA ch : ch \notin Whitespace)

Strip(s) == RStrip(LStrip(s))

NoError == "None"

\* run_code's (success, output, error) for what the container did.  outcome.kind:
\*   "success"     the container exited 0
\*   "nonzero"     it exited with another code
\*   "timeout"     subprocess.run raised TimeoutExpired
\*   "error"       subprocess.run raised something else (no container runtime)
\*   "stage_error" the input file could not be created
RunCode(language, outcome) ==
    IF outcome.kind = "stage_error"
    THEN [success |-> FALSE, output |-> <<>>, error |-> "Error running code"]
    ELSE IF language \notin SupportedLanguages
    THEN [success |-> FALSE, output |-> <<>>, error |-> "Unsupported language"]
    ELSE CASE outcome.kind = "success" ->
                [success |-> TRUE, output |-> outcome.stdout, error |-> NoError]
           [] outcome.kind = "nonzero" ->
                [success |-> FALSE, output |-> outcome.stdout, error |-> "Execution error"]
           [] outcome.kind = "timeout" ->
                [success |-> FALSE, output |-> <<>>, error |-> "Execution timed out"]
           [] OTHER ->
                [success |-> FALSE, output |-> <<>>, error |-> "Error running code"]

(* Container commands: the flags of docker run that are present, with their *)
(* values, and the -v mounts.                                               *)

\* compiler.py, lines 79-88, 136-145, 185-194: the build of a c, cpp or java source
BuildCommand(language) ==
    [phase |-> "build",
     image |-> language \o "-compiler:latest",
     flags |-> [memory |-> MAX_MEMORY_MB, cpus |-> MAX_CPU_LIMIT, network |-> "none",
                u |-> "root"],
     mounts |-> {[target |-> "/src", mode |-> "rw"]}]

\* a variant: the code is mounted read-write for the run as it is for the build
RunCommandWritable(language) ==
    [phase |-> "run",
     image |-> language \o "-compiler:latest",
     flags |-> [memory |-> MAX_MEMORY_MB, cpus |-> MAX_CPU_LIMIT, network |-> "none",
                u |-> SANDBOX_USER],
     mounts |-> {[target |-> "/exec", mode |-> "rw"], [target |-> "/input", mode |-> "ro"]}]

\* code_runner.py, lines 134-168: the run of one test
RunCommand(language) ==
    [phase |-> "run",
     image |-> language \o "-compiler:latest",
     flags |-> [memory |-> MAX_MEMORY_MB, cpus |-> MAX_CPU_LIMIT, network |-> "none",
                u |-> SANDBOX_USER],
     mounts |-> {[target |-> "/exec", mode |-> "ro"], [target |-> "/input", mode |-> "ro"]}]

\* the commands one run_code call issues: none if the input file could not be
\* created or the language has no branch, else the one of lines 158-168
RunCodeCommands(language, outcome) ==
    IF outcome.kind # "stage_error" /\ language \in SupportedLanguages
    THEN <<RunCommand(language)>> ELSE <<>>

\* line 81: 'success' if success and actual_output.strip() == expected_output.strip()
TestStatus(success, actual_output, expected_output) ==
    IF success /\ Strip(actual_output) = Strip(expected_output) THEN "success" ELSE "failed"

\* lines 80-85: the outcome is written into the entry; 'error' only if there is one
RecordOutcome(test, res) ==
    [test EXCEPT
        !.run_output = res.output,
        !.status = TestStatus(res.success, res.output, test.output),
        !.error = IF res.error # NoError THEN res.error ELSE @,
        !.keys = @ \cup {"run_output", "status"}
                   \cup (IF res.error # NoError THEN {"error"} ELSE {})]

\* line 90: test_score = (test_weight * max_grade) / 100, in thousandths
TestScore(test_weight, max_grade) == test_weight * max_grade

\* a variant: the score is added whether or not the test passed
AddToGradeAlways(total_grade, status, test_score) == total_grade + test_score

\* lines 88-91: total_grade += test_score if the test passed
AddToGrade(total_grade, status, test_score) ==
    IF status = "success" THEN total_grade + test_score ELSE total_grade

\* line 97: round(total_grade, 2), thousandths to hundredths.  A value halfway
\* between two hundredths is not a binary fraction in general, and round goes
\* by the double nearest to it: either neighbour can come out.
Round2(thousandths) ==
    IF thousandths % 10 = 5 THEN {thousandths \div 10, (thousandths \div 10) + 1}
    ELSE {(thousandths + 5) \div 10}

\* a variant: the loop is left at the first test that fails (break)
NextIndexBreak(i, status) == IF status = "failed" THEN i + MaxTests + 1 ELSE i + 1

\* a variant: a test that fails is run again
NextIndexRetry(i, status) == IF status = "failed" THEN i ELSE i + 1

\* line 60: the next value of i
NextIndex(i, status) == i + 1

(* Staging paths *)

\* _create_source_file: solution_<uuid4>.<ext>, or Solution.java for Java
SourcePath(r, language) ==
    IF language = "java" THEN [name |-> "Solution.java", req |-> 0, n |-> 0]
    ELSE [name |-> "solution." \o language, req |-> r, n |-> 0]

\* what compile_code builds: the source itself (python), the source path less
\* its extension (c, cpp), Solution.class beside Solution.java (java)
ArtifactPath(r, language) ==
    IF language = "java" THEN [name |-> "Solution.class", req |-> 0, n |-> 0]
    ELSE IF language = "python" THEN SourcePath(r, language)
    ELSE [name |-> "solution", req |-> r, n |-> 0]

\* _create_input_file: tempfile.mkstemp, a fresh name for every call
InputPath(r, i) == [name |-> "tmp", req |-> r, n |-> i]

WriteFile(files, path, content) == (path :> content) @@ files

NoteWriter(w, path, r) ==
    (path :> ((IF path \in DOMAIN w THEN w[path] ELSE {}) \cup {r})) @@ w

NoFiles == [path \in {} |-> 0]

\* a variant: os.unlink is never called
RemoveFileSkipped(files, path) == files

\* os.unlink(path)
RemoveFile(files, path) == [p \in DOMAIN files \ {path} |-> files[p]]

\* whose submission a file holds (0: there is no such file)
FileCode(files, path) == IF path \in DOMAIN files THEN files[path].code ELSE 0

\* the staging directory after one run_code call: the input file is created
\* first (line 121), before the language is looked at, and removed only where
\* the container exited 0 (lines 198-202); every other return leaves it
FilesAfterRunCode(files, path, owner, language, outcome) ==
    IF outcome.kind = "stage_error" THEN files
    ELSE LET staged == WriteFile(files, path, [code |-> owner])
         IN  IF language \in SupportedLanguages /\ outcome.kind = "success"
             THEN RemoveFile(staged, path)
             ELSE staged

\* what a build does, and what the language handlers return for it
\*   "built"       exit 0, the artifact is written
\*   "no_artifact" exit 0, nothing is written
\*   "nonzero"     the compiler exits with an error
\*   "timeout"     subprocess.run raised TimeoutExpired
\*   "error"       subprocess.run raised something else
BuildOutcomes == {"built", "no_artifact", "nonzero", "timeout", "error"}

\* a variant: os.path.exists(executable) is not consulted
CompileSucceededUnchecked(outcome, artifactExists) == outcome \in {"built", "no_artifact"}

CompileSucceeded(outcome, artifactExists) ==
    outcome \in {"built", "no_artifact"} /\ artifactExists

CompileMessage(outcome, artifactExists) ==
    CASE outcome = "nonzero" -> "Compilation error"
      [] outcome = "timeout" -> "Compilation timed out"
      [] outcome = "error" -> "Error compiling code"
      [] OTHER -> IF artifactExists THEN "Compilation successful"
                  ELSE "Executable not found after compilation"

\* lines 40-45: the result as run_tests creates it
NewReport == [build_status |-> "failed", build_message |-> "", grade |-> 0]

RunIdle ==
    /\ lang = [r \in Requests |-> "c"]
    /\ tests = [r \in Requests |-> [count |-> 0, entries |-> NoEntries]]
    /\ tests0 = tests
    /\ maxGrade = [r \in Requests |-> 100]
    /\ pc = [r \in Requests |-> "absent"]
    /\ idx = [r \in Requests |-> 1]
    /\ total = [r \in Requests |-> 0]
    /\ report = [r \in Requests |-> NewReport]
    /\ exePath = [r \in Requests |-> SourcePath(r, "c")]
    /\ fs = NoFiles
    /\ writers = NoFiles
    /\ compileLog = [r \in Requests |-> <<>>]
    /\ execLog = [r \in Requests |-> <<>>]
    /\ cmds = [r \in Requests |-> <<>>]
    /\ rcLog = <<>>

genIdleVars == <<weightVars, padVars, genVars>>

(* compile_code, first half: the language dispatch and _create_source_file. *)
(* staged = FALSE: open() raised, the handler's except returns the failure.  *)
StageSource(r) ==
    /\ pc[r] = "pending"
    /\ \E staged \in BOOLEAN :
         LET path == SourcePath(r, lang[r])
             supported == lang[r] \in SupportedLanguages
             written == supported /\ staged
             done == ~written \/ lang[r] = "python"
             event == IF ~supported THEN "unsupported"
                      ELSE IF ~staged THEN "staging_error" ELSE "ok"
         IN  /\ fs' = IF written THEN WriteFile(fs, path, [code |-> r]) ELSE fs
             /\ writers' = IF written THEN NoteWriter(writers, path, r) ELSE writers
             /\ compileLog' = [compileLog EXCEPT ![r] =
                                 Append(@, [event |-> IF done THEN event ELSE "building",
                                            source |-> r])]
             /\ pc' = [pc EXCEPT ![r] = IF ~written THEN "compile_failed"
                                         ELSE IF lang[r] = "python" THEN "running"
                                         ELSE "compiling"]
             /\ report' = [report EXCEPT ![r] =
                             IF ~supported
                             THEN [@ EXCEPT !.build_message = "Unsupported programming language"]
                             ELSE IF ~staged
                             THEN [@ EXCEPT !.build_message = "Error compiling code"]
                             ELSE IF lang[r] = "python"
                             THEN [@ EXCEPT !.build_status = "success",
                                            !.build_message = "Python script saved successfully"]
                             ELSE @]
             /\ exePath' = [exePath EXCEPT ![r] = IF written THEN path ELSE @]
    /\ UNCHANGED <<lang, tests, tests0, maxGrade, idx, total, execLog, cmds, rcLog,
                   genIdleVars>>

(* compile_code, second half: the build in the container and the test that *)
(* the artifact exists; then lines 49-55 of run_tests.                       *)
Build(r) ==
    /\ pc[r] = "compiling"
    /\ \E outcome \in BuildOutcomes :
         LET src == SourcePath(r, lang[r])
             art == ArtifactPath(r, lang[r])
             files == IF outcome = "built" THEN WriteFile(fs, art, [code |-> FileCode(fs, src)])
                      ELSE fs
             exists == art \in DOMAIN files
             ok == CompileSucceeded(outcome, exists)
             event == IF outcome \in {"built", "no_artifact"}
                      THEN (IF exists THEN "ok" ELSE "missing") ELSE outcome
         IN  /\ fs' = files
             /\ writers' = IF outcome = "built" THEN NoteWriter(writers, art, r) ELSE writers
             /\ compileLog' = [compileLog EXCEPT ![r] =
                                 [@ EXCEPT ![Len(@)] = [event |-> event, source |-> FileCode(fs, src)]]]
             /\ pc' = [pc EXCEPT ![r] = IF ok THEN "running" ELSE "compile_failed"]
             /\ report' = [report EXCEPT ![r] =
                             [@ EXCEPT !.build_status = IF ok THEN "success" ELSE "failed",
                                       !.build_message = CompileMessage(outcome, exists)]]
             /\ exePath' = [exePath EXCEPT ![r] = IF ok THEN art ELSE @]
             /\ cmds' = [cmds EXCEPT ![r] = Append(@, BuildCommand(lang[r]))]
    /\ UNCHANGED <<lang, tests, tests0, maxGrade, idx, total, execLog, rcLog, genIdleVars>>

\* what the container can do with one test
Outputs == {<<"4">>, <<"4", " ", " ", "5">>, <<" ", "4", " ", "5", "\n">>}

ExecOutcomes ==
    {[kind |-> "success", stdout |-> o] : o \in Outputs}
    \cup {[kind |-> "nonzero", stdout |-> <<"4">>]}
    \cup {[kind |-> k, stdout |-> <<>>] : k \in {"timeout", "error", "stage_error"}}

(* One iteration of the loop of lines 60-94 for a test that is in the suite: *)
(* run_code stages the input, runs the artifact, and removes the input file  *)
(* after an exit code of 0 only.                                             *)
RunTest(r) ==
    /\ pc[r] = "running"
    /\ idx[r] <= tests[r].count
    /\ idx[r] \in DOMAIN tests[r].entries
    /\ \E outcome \in ExecOutcomes :
         LET i == idx[r]
             test == tests[r].entries[i]
             res == RunCode(lang[r], outcome)
             updated == RecordOutcome(test, res)
             input == InputPath(r, i)
         IN  /\ tests' = [tests EXCEPT ![r].entries[i] = updated]
             /\ total' = [total EXCEPT ![r] =
                            AddToGrade(@, updated.status, TestScore(test.value, maxGrade[r]))]
             /\ idx' = [idx EXCEPT ![r] = NextIndex(i, updated.status)]
             /\ fs' = FilesAfterRunCode(fs, input, r, lang[r], outcome)
             /\ writers' = IF outcome.kind # "stage_error"
                           THEN NoteWriter(writers, input, r) ELSE writers
             /\ execLog' = [execLog EXCEPT ![r] =
                              Append(@, [test |-> i, kind |-> outcome.kind,
                                         stdout |-> outcome.stdout,
                                         ran |-> FileCode(fs, exePath[r])])]
             /\ cmds' = [cmds EXCEPT ![r] = @ \o RunCodeCommands(lang[r], outcome)]
    /\ UNCHANGED <<lang, tests0, maxGrade, pc, report, exePath, compileLog, rcLog,
                   genIdleVars>>

(* lines 62-64: an id up to count that the suite does not hold is skipped *)
SkipMissing(r) ==
    /\ pc[r] = "running"
    /\ idx[r] <= tests[r].count
    /\ idx[r] \notin DOMAIN tests[r].entries
    /\ idx' = [idx EXCEPT ![r] = @ + 1]
    /\ UNCHANGED <<lang, tests, tests0, maxGrade, pc, total, report, exePath, fs,
                   writers, compileLog, execLog, cmds, rcLog, genIdleVars>>

(* lines 96-100: the grade is set and the result returned *)
Finish(r) ==
    /\ pc[r] = "running"
    /\ idx[r] > tests[r].count
    /\ \E g \in Round2(total[r]) :
         report' = [report EXCEPT ![r].grade = g]
    /\ pc' = [pc EXCEPT ![r] = "graded"]
    /\ UNCHANGED <<lang, tests, tests0, maxGrade, idx, total, exePath, fs,
                   writers, compileLog, execLog, cmds, rcLog, genIdleVars>>

----------------------------------------------------------------------------
(* Inputs *)

AllKeys == {"input", "output", "explanation", "difficulty"}

\* the j-th element of a response: an object with all four keys ("full"; "wild":
\* with a difficulty of 9 or 0, outside 1..5), an object that lacks explanation
\* and difficulty, or something that is no object
ResponseItem(j, shape) ==
    [isObj |-> shape # "scalar",
     has |-> IF shape \in {"full", "wild"} THEN AllKeys
             ELSE IF shape = "sparse" THEN {"input", "output"} ELSE {},
     input |-> "in" \o ToString(j),
     output |-> "out" \o ToString(j),
     explanation |-> "why" \o ToString(j),
     difficulty |-> IF shape = "wild" THEN (IF j % 2 = 1 THEN 9 ELSE 0)
                    ELSE ((j - 1) % 5) + 1]

\* m elements of one shape, the one at position badAt (if any) being no object
ResponseItems(m, shape, badAt) ==
    [j \in 1..m |-> ResponseItem(j, IF j = badAt THEN "scalar" ELSE shape)]

MaxItems == MAX_TEST_COUNT + ItemSlack

Responses ==
    {[kind |-> "raise", tag |-> "none", items |-> <<>>],
     [kind |-> "json", tag |-> "nonseq", items |-> <<>>]}
    \cup UNION {{[kind |-> "json", tag |-> "list", items |-> ResponseItems(m, shape, badAt)] :
                    shape \in {"full", "sparse", "wild"}, badAt \in {0, 1, m - 1, m}} :
                 m \in 0..MaxItems}
    \cup {[kind |-> "text", tag |-> "none", items |-> ResponseItems(m, shape, 0)] :
            m \in 0..MaxItems, shape \in {"full", "wild"}}

RequestedCounts == (-ReqSlack)..(MAX_TEST_COUNT + ReqSlack)

\* inputs of parsed entries: plain texts, and texts that already end in the
\* suffix that padding appends
InputPool ==
    {"a", "b"} \cup {ModifiedInput("a", i) : i \in 2..(MaxPadK + MaxPadExtra)}

ParsedItem(in) ==
    [isObj |-> TRUE, has |-> AllKeys, input |-> in, output |-> "out of " \o in,
     explanation |-> "why", difficulty |-> IF in = "b" THEN 4 ELSE 2]

\* the suites _parse_response returns for k objects with the inputs ins
ParsedSuite(ins) == StrictParse([j \in 1..Len(ins) |-> ParsedItem(ins[j])], Len(ins)).val

ParsedSuites ==
    {ParsedSuite(ins) : ins \in UNION {[1..k -> InputPool] : k \in 1..MaxPadK}}

EmptySuite == [count |-> 0, entries |-> NoEntries]

----------------------------------------------------------------------------
(* Specifications of the generator *)

WeightsIdle == wN = 0 /\ wOut = Ok(<<>>) /\ wPc = "idle"

PadIdle == padTests = EmptySuite /\ padReq = 0 /\ padOut = Ok(EmptySuite) /\ padPc = "idle"

GenIdle ==
    /\ reqCount = 0
    /\ resp = [kind |-> "raise", tag |-> "none", items |-> <<>>]
    /\ genOut = Ok(EmptySuite)
    /\ genPc = "idle"
    /\ genPrompt = 0
    /\ genParsed = RaisedSuite

\* weights = self._calculate_balanced_weights(n)
InitWeights ==
    /\ wN \in (-WeightSlack)..(TotalWeight + WeightSlack)
    /\ wOut = Ok(<<>>)
    /\ wPc = "called"
    /\ PadIdle /\ GenIdle /\ RunIdle

ApplyWeights ==
    /\ wPc = "called"
    /\ wOut' = CalculateBalancedWeights(wN)
    /\ wPc' = "returned"
    /\ UNCHANGED <<wN, padVars, genVars, runVars>>

SpecWeights == InitWeights /\ [][ApplyWeights]_vars

\* tests = self._ensure_test_count(tests, count)
InitPad ==
    /\ padTests \in ParsedSuites
    /\ padReq \in 1..(padTests.count + MaxPadExtra)
    /\ padOut = Ok(EmptySuite)
    /\ padPc = "called"
    /\ WeightsIdle /\ GenIdle /\ RunIdle

ApplyPad ==
    /\ padPc = "called"
    /\ padOut' = EnsureTestCount(padTests, padReq)
    /\ padPc' = "returned"
    /\ UNCHANGED <<padTests, padReq, weightVars, genVars, runVars>>

SpecPad == InitPad /\ [][ApplyPad]_vars

\* tests = generator.generate_tests(task_description, code, language, count)
InitGen ==
    /\ reqCount \in RequestedCounts
    /\ resp \in Responses
    /\ genOut = Ok(EmptySuite)
    /\ genPc = "called"
    /\ genPrompt = 0
    /\ genParsed = RaisedSuite
    /\ WeightsIdle /\ PadIdle /\ RunIdle

Generate ==
    /\ genPc = "called"
    /\ genOut' = GenerateTests(reqCount, resp)
    /\ genPrompt' = PromptCount(ClampCount(reqCount))
    /\ genParsed' = ParseStage(reqCount, resp)
    /\ genPc' = "returned"
    /\ UNCHANGED <<reqCount, resp, weightVars, padVars, runVars>>

SpecGen == InitGen /\ [][Generate]_vars

----------------------------------------------------------------------------
(* Specifications of the grading pipeline *)

(* Suites a caller passes in *)

Weights == {33, 50}

ExpectedOutputs == {<<"4", "\n">>, <<"4", " ", "5">>}

\* max_grade 10 and 7.5
MaxGrades == {100, 75}

NewEntry(w, expected) ==
    [value |-> w, input |-> <<"1">>, output |-> expected,
     keys |-> {}, run_output |-> <<>>, status |-> "", error |-> NoError]

SuitesOfCount(c) ==
    UNION {{[count |-> c, entries |-> e] :
              e \in [ids -> {NewEntry(w, x) : w \in Weights, x \in ExpectedOutputs}]} :
           ids \in SUBSET (1..c)}

Suites == UNION {SuitesOfCount(c) : c \in 0..MaxTests}

RunNext == \E r \in Requests :
    StageSource(r) \/ Build(r) \/ RunTest(r) \/ SkipMissing(r) \/ Finish(r)

\* one grading request: runner.run_tests(code, language, tests, max_grade)
InitRun ==
    /\ lang \in [Requests -> Languages]
    /\ \A r \in Requests : r # 1 => lang[r] = "c"
    /\ tests \in [Requests -> Suites]
    /\ \A r \in Requests : r # 1 => tests[r] = [count |-> 0, entries |-> NoEntries]
    /\ tests0 = tests
    /\ maxGrade \in [Requests -> MaxGrades]
    /\ \A r \in Requests : r # 1 => maxGrade[r] = 100
    /\ pc = [r \in Requests |-> IF r = 1 THEN "pending" ELSE "absent"]
    /\ idx = [r \in Requests |-> 1]
    /\ total = [r \in Requests |-> 0]
    /\ report = [r \in Requests |-> NewReport]
    /\ exePath = [r \in Requests |-> SourcePath(r, "c")]
    /\ fs = NoFiles
    /\ writers = NoFiles
    /\ compileLog = [r \in Requests |-> <<>>]
    /\ execLog = [r \in Requests |-> <<>>]
    /\ cmds = [r \in Requests |-> <<>>]
    /\ rcLog = <<>>
    /\ WeightsIdle /\ PadIdle /\ GenIdle

SpecRun == InitRun /\ [][RunNext]_vars

(* The suite of a graded request is passed to run_tests again, as the next    *)
(* request q: the same code, language and max_grade, and the entries as the  *)
(* earlier call left them (they are the caller's objects).  tests[r] stays   *)
(* the report as it was when the call of r returned.                         *)
GradeAgain(r, q) ==
    /\ pc[r] = "graded"
    /\ q = r + 1 /\ q \in Requests
    /\ pc[q] = "absent"
    /\ lang' = [lang EXCEPT ![q] = lang[r]]
    /\ maxGrade' = [maxGrade EXCEPT ![q] = maxGrade[r]]
    /\ tests' = [tests EXCEPT ![q] = tests[r]]
    /\ tests0' = [tests0 EXCEPT ![q] = tests[r]]
    /\ pc' = [pc EXCEPT ![q] = "pending"]
    /\ UNCHANGED <<idx, total, report, exePath, fs, writers, compileLog, execLog,
                   cmds, rcLog, genIdleVars>>

AgainNext == RunNext \/ \E r \in Requests : \E q \in Requests : GradeAgain(r, q)

\* one grading request, and then the same suite graded again
SpecAgain == InitRun /\ [][AgainNext]_vars

\* the suites of the concurrent specification: one test, or two of which the
\* first is not in the suite
SmallSuites ==
    {[count |-> c, entries |-> [i \in {c} |-> NewEntry(50, <<"4", "\n">>)]] : c \in 1..2}

\* all requests in flight together, as threads of the server
InitConc ==
    /\ lang \in [Requests -> Languages]
    /\ tests \in [Requests -> SmallSuites]
    /\ tests0 = tests
    /\ maxGrade = [r \in Requests |-> 100]
    /\ pc = [r \in Requests |-> "pending"]
    /\ idx = [r \in Requests |-> 1]
    /\ total = [r \in Requests |-> 0]
    /\ report = [r \in Requests |-> NewReport]
    /\ exePath = [r \in Requests |-> SourcePath(r, "c")]
    /\ fs = NoFiles
    /\ writers = NoFiles
    /\ compileLog = [r \in Requests |-> <<>>]
    /\ execLog = [r \in Requests |-> <<>>]
    /\ cmds = [r \in Requests |-> <<>>]
    /\ rcLog = <<>>
    /\ WeightsIdle /\ PadIdle /\ GenIdle

SpecConc == InitConc /\ [][RunNext]_vars

\* the container is not reached: the language has no branch in run_code
NotRun == [kind |-> "not_run", stdout |-> <<>>]

\* what can happen in a call of run_code for a language
CallOutcomes(language) ==
    IF language \in SupportedLanguages THEN ExecOutcomes
    ELSE {NotRun, [kind |-> "stage_error", stdout |-> <<>>]}

\* the n-th input file of the direct calls (owner 0: no grading request)
DirectInputPath(n) == InputPath(0, n)

\* runner.run_code(executable_path, language, input_data), for any language
RunCodeCall ==
    /\ Len(rcLog) < MaxCalls
    /\ \E language \in Languages : \E outcome \in CallOutcomes(language) :
         LET path == DirectInputPath(Len(rcLog) + 1)
         IN  /\ fs' = FilesAfterRunCode(fs, path, 0, language, outcome)
             /\ writers' = IF outcome.kind # "stage_error"
                           THEN NoteWriter(writers, path, 0) ELSE writers
             /\ rcLog' = Append(rcLog, [language |-> language, kind |-> outcome.kind,
                                        path |-> path,
                                        res |-> RunCode(language, outcome),
                                        cmd |-> RunCodeCommands(language, outcome)])
    /\ UNCHANGED <<lang, tests, tests0, maxGrade, pc, idx, total, report, exePath,
                   compileLog, execLog, cmds, genIdleVars>>

InitRunCode == RunIdle /\ WeightsIdle /\ PadIdle /\ GenIdle

SpecRunCode == InitRunCode /\ [][RunCodeCall]_vars

----------------------------------------------------------------------------
(* Properties of the generator *)

\* requestedCount clamped into [1, MAX_TEST_COUNT], as the specification states it
ClampedRequest ==
    IF reqCount < 1 THEN 1 ELSE IF reqCount > MAX_TEST_COUNT THEN MAX_TEST_COUNT ELSE reqCount

WellFormedSuite(suite, n) ==
    /\ suite.count = n
    /\ DOMAIN suite.entries = 1..n
    /\ \A i \in 1..n : suite.entries[i].id = i
    /\ SumSeq([i \in 1..n |-> suite.entries[i].value]) = 100

\* C1: whatever the model answers (any text, an array with fewer or more entries
\* than requested, an empty array, an error) and whatever integer is requested,
\* the suite generate_tests returns has count = the clamped request, holds exactly
\* the entries 1..count, each under its own id, and its weights add up to 100.
C1_SuiteWellFormed ==
    genPc = "returned" => ~genOut.exc /\ WellFormedSuite(genOut.val, ClampedRequest)

\* half of the requested entries were returned, and the suite was padded
C1_Witness ==
    /\ genPc = "returned"
    /\ resp.kind = "json" /\ resp.tag = "list" /\ Len(resp.items) = 3 /\ reqCount = 6
    /\ ~genOut.exc
    /\ genOut.val.count = 6
    /\ genOut.val.entries[4].explanation = "Additional test based on test 1"

\* C2: generate_tests never raises: whatever fails in the model call, the strict
\* parse, the recovery parse or the padding, and whatever was requested, the call
\* returns a suite.
C2_NeverRaises == genPc = "returned" => ~genOut.exc

\* the model call raised for a request of 0, and the fallback suite came back
C2_Witness ==
    /\ genPc = "returned"
    /\ resp.kind = "raise" /\ reqCount = 0
    /\ ~genOut.exc
    /\ genOut.val.count = 1
    /\ genOut.val.entries[1].input = "fallback_test_input_1"

\* C12: the requested count is clamped into [1, MAX_TEST_COUNT] before any use.
\* The prompt asks for the clamped count, and the suite that comes back, through
\* the strict parse, the recovery parse, the padding or the fallback, holds
\* exactly the clamped number of entries: one entry for a request of 0 or less,
\* MAX_TEST_COUNT (30) entries for a request above 30, also when the fallback is
\* reached through an exception.
C12_ClampedBeforeUse ==
    genPc = "returned" =>
        /\ ~genOut.exc
        /\ genPrompt = ClampedRequest
        /\ genOut.val.count = ClampedRequest
        /\ DOMAIN genOut.val.entries = 1..ClampedRequest
        /\ reqCount <= 0 => genOut.val.count = 1 /\ DOMAIN genOut.val.entries = {1}
        /\ reqCount > 30 => genOut.val.count = 30 /\ DOMAIN genOut.val.entries = 1..30

\* 32 tests were requested and the model call raised: 30 fallback entries
C12_Witness ==
    /\ genPc = "returned"
    /\ reqCount = 32 /\ resp.kind = "raise"
    /\ genPrompt = 30
    /\ ~genOut.exc
    /\ genOut.val.count = 30
    /\ genOut.val.entries[30].input = "fallback_test_input_30"

\* a suite of exactly n placeholder entries: fallback labels numbered by id,
\* difficulty 3
PlaceholderSuite(suite, n) ==
    /\ suite.count = n
    /\ DOMAIN suite.entries = 1..n
    /\ \A i \in 1..n :
         /\ suite.entries[i].id = i
         /\ suite.entries[i].input = "fallback_test_input_" \o ToString(i)
         /\ suite.entries[i].output = "fallback_test_output_" \o ToString(i)
         /\ suite.entries[i].difficulty = 3

\* the model call raised, or the text is unparsable and has no match of the
\* pattern, or the parsed value is an empty array or no array at all
NothingParsed ==
    \/ resp.kind = "raise"
    \/ resp.kind = "text" /\ resp.items = <<>>
    \/ resp.kind = "json" /\ (resp.tag = "nonseq" \/ resp.items = <<>>)

\* the parsed value is an array with an element that is no object ...
NonObjectAnywhere ==
    /\ resp.kind = "json" /\ resp.tag = "list"
    /\ \E j \in 1..Len(resp.items) : ~resp.items[j].isObj

\* ... among its first requestedCount (clamped) elements
NonObjectWithinCap ==
    /\ resp.kind = "json" /\ resp.tag = "list"
    /\ \E j \in 1..Len(resp.items) : j <= ClampedRequest /\ ~resp.items[j].isObj

\* C17 (as stated): the fallback is all-or-nothing: when the model call raises or
\* the response yields no usable entry (unparsable text without a pattern match,
\* an empty array, a parsed value that is not a list of objects), the returned
\* suite consists of exactly requestedCount placeholder entries and holds no
\* entry derived from the model's answer.
C17_FallbackWheneverNotObjects ==
    (genPc = "returned" /\ (NothingParsed \/ NonObjectAnywhere)) =>
        ~genOut.exc /\ PlaceholderSuite(genOut.val, ClampedRequest)

\* C17 (amended): the same, where "not a list of objects" is a value that is no
\* list, or a list with an element that is no object among its first
\* requestedCount elements; an element beyond the cap is never looked at.
C17_FallbackAllOrNothing ==
    (genPc = "returned" /\ (NothingParsed \/ NonObjectWithinCap)) =>
        ~genOut.exc /\ PlaceholderSuite(genOut.val, ClampedRequest)

\* five tests requested, the answer is an object followed by something that is
\* no object: the object is dropped too, five placeholders come back
C17_Witness ==
    /\ genPc = "returned"
    /\ reqCount = 5
    /\ resp.kind = "json" /\ resp.tag = "list" /\ Len(resp.items) = 2
    /\ resp.items[1].isObj /\ ~resp.items[2].isObj
    /\ ~genOut.exc
    /\ PlaceholderSuite(genOut.val, 5)

\* C3: padding never introduces a duplicate input: after _ensure_test_count has
\* extended a suite of k >= 1 entries, the input of every added entry differs from
\* the input of every other entry of the suite, original or added.
C3_PaddedInputsDistinct ==
    (padPc = "returned" /\ padTests.count < padReq /\ ~padOut.exc) =>
        \A i \in (padTests.count + 1)..padReq : \A j \in 1..padReq :
            j # i => padOut.val.entries[i].input # padOut.val.entries[j].input

\* C18: padding clones round-robin.  When k entries were parsed, 1 <= k <
\* requestedCount, each added entry with id i in k+1..requestedCount is derived
\* from the existing entry at 0-based index (i - k - 1) mod k: it has that
\* entry's output and difficulty, and its explanation names that entry.
C18_PaddingRoundRobin ==
    (padPc = "returned" /\ padTests.count >= 1 /\ padTests.count < padReq) =>
        /\ ~padOut.exc
        /\ \A i \in (padTests.count + 1)..padReq :
             LET k == padTests.count
                 from0 == (i - k - 1) % k
                 original == padTests.entries[from0 + 1]
                 added == padOut.val.entries[i]
             IN  /\ added.output = original.output
                 /\ added.difficulty = original.difficulty
                 /\ added.explanation = "Additional test based on test " \o ToString(from0 + 1)

\* two parsed entries extended to four: the third is a clone of the first, the
\* fourth of the second
C18_Witness ==
    /\ padPc = "returned" /\ padTests.count = 2 /\ padReq = 4
    /\ padTests.entries[1].input = "a" /\ padTests.entries[2].input = "b"
    /\ ~padOut.exc
    /\ padOut.val.entries[3].output = "out of a" /\ padOut.val.entries[3].difficulty = 2
    /\ padOut.val.entries[4].output = "out of b" /\ padOut.val.entries[4].difficulty = 4
    /\ padOut.val.entries[4].explanation = "Additional test based on test 2"

\* position i of WeightAllocator(n), n >= 1
AllocatedWeight(n, i) == (100 \div n) + (IF i <= 100 % n THEN 1 ELSE 0)

\* C19: the strict parse keeps the model's entries in order and caps them.  When
\* the response holds a parsable array of m objects, the entries 1..min(m,
\* requestedCount) of the returned suite carry the input, output, explanation and
\* difficulty of the model's first min(m, requestedCount) objects, in the same
\* order, and before any padding the parsed suite holds exactly these entries
\* with the weights of WeightAllocator(min(m, requestedCount)).
C19_StrictParseKeepsOrder ==
    (/\ genPc = "returned"
     /\ resp.kind = "json" /\ resp.tag = "list"
     /\ \A j \in 1..Len(resp.items) : resp.items[j].isObj) =>
        LET n == IF Len(resp.items) < ClampedRequest THEN Len(resp.items) ELSE ClampedRequest
        IN  /\ ~genParsed.exc /\ ~genOut.exc
            /\ genParsed.val.count = n
            /\ DOMAIN genParsed.val.entries = 1..n
            /\ \A i \in 1..n :
                 /\ genParsed.val.entries[i].value = AllocatedWeight(n, i)
                 /\ genOut.val.entries[i].id = i
                 /\ \A key \in resp.items[i].has :
                      /\ genParsed.val.entries[i][key] = resp.items[i][key]
                      /\ n > 0 => genOut.val.entries[i][key] = resp.items[i][key]

\* four objects for a request of three: the first three, in order, 34 33 33
C19_Witness ==
    /\ genPc = "returned" /\ reqCount = 3
    /\ resp.kind = "json" /\ resp.tag = "list" /\ Len(resp.items) = 4
    /\ \A j \in 1..4 : resp.items[j].isObj /\ resp.items[j].has = AllKeys
    /\ ~genOut.exc /\ genOut.val.count = 3
    /\ genOut.val.entries[1].input = "in1" /\ genOut.val.entries[1].value = 34
    /\ genOut.val.entries[2].input = "in2" /\ genOut.val.entries[2].difficulty = 2
    /\ genOut.val.entries[3].input = "in3" /\ genOut.val.entries[3].value = 33

\* C20: every test of a suite returned by generate_tests has an integer
\* difficulty in 1..5, whatever difficulties (missing, out of range, any string of
\* digits) the model's response holds.
C20_DifficultyInRange ==
    genPc = "returned" =>
        /\ ~genOut.exc
        /\ \A i \in DOMAIN genOut.val.entries : genOut.val.entries[i].difficulty \in 1..5

\* C21: padding changes only the weights of the entries that were there.  After
\* _ensure_test_count has extended a suite of k entries (1 <= k < requestedCount),
\* each of the k original entries has the id, input, output, explanation and
\* difficulty it had, and its weight is position id of
\* WeightAllocator(requestedCount).
C21_PaddingKeepsOriginals ==
    (padPc = "returned" /\ padTests.count >= 1 /\ padTests.count < padReq) =>
        /\ ~padOut.exc
        /\ \A i \in 1..padTests.count :
             LET before == padTests.entries[i]
                 after == padOut.val.entries[i]
             IN  /\ after.id = before.id /\ after.id = i
                 /\ after.input = before.input
                 /\ after.output = before.output
                 /\ after.explanation = before.explanation
                 /\ after.difficulty = before.difficulty
                 /\ after.value = AllocatedWeight(padReq, i)

\* two entries of weight 50 extended to three: 34 and 33, everything else kept
C21_Witness ==
    /\ padPc = "returned" /\ padTests.count = 2 /\ padReq = 3
    /\ padTests.entries[1].value = 50 /\ padTests.entries[2].value = 50
    /\ padTests.entries[1].input = "a" /\ padTests.entries[2].input = "b"
    /\ ~padOut.exc
    /\ padOut.val.entries[1].value = 34 /\ padOut.val.entries[2].value = 33
    /\ padOut.val.entries[1].input = "a" /\ padOut.val.entries[2].input = "b"
    /\ padOut.val.entries[2].difficulty = 4

\* C10: for every n in 1..100, _calculate_balanced_weights(n) returns (its sum
\* assertion does not fail) exactly n integers, each positive, that add up to 100.
C10_WeightsPositiveSum ==
    (wPc = "returned" /\ wN \in 1..100) =>
        /\ ~wOut.exc
        /\ Len(wOut.val) = wN
        /\ \A i \in 1..wN : wOut.val[i] \in Nat \ {0}
        /\ SumSeq(wOut.val) = 100

C10_Witness ==
    wPc = "returned" /\ wN = 7 /\ ~wOut.exc /\ wOut.val = <<15, 15, 14, 14, 14, 14, 14>>

\* C11: the weight sequence has a fixed shape.  With base = 100 div n and
\* remainder = 100 mod n (the one pair with 100 = base * n + remainder and
\* 0 <= remainder < n), positions 1..remainder hold base + 1 and positions
\* remainder + 1..n hold base; n = 7 gives [15,15,14,14,14,14,14]; n = 0 gives
\* the empty sequence, and no error.
C11_WeightShape ==
    (wPc = "returned" /\ wN >= 0) =>
        /\ ~wOut.exc
        /\ Len(wOut.val) = wN
        /\ wN = 0 => wOut.val = <<>>
        /\ wN = 7 => wOut.val = <<15, 15, 14, 14, 14, 14, 14>>
        /\ \A base \in 0..100 : \A remainder \in 0..(wN - 1) :
             100 = base * wN + remainder =>
                /\ \A i \in 1..remainder : wOut.val[i] = base + 1
                /\ \A i \in (remainder + 1)..wN : wOut.val[i] = base

\* 100 = 8 * 12 + 4: four weights of 9, then eight of 8
C11_Witness ==
    /\ wPc = "returned" /\ wN = 12 /\ ~wOut.exc
    /\ wOut.val = <<9, 9, 9, 9, 8, 8, 8, 8, 8, 8, 8, 8>>

----------------------------------------------------------------------------
(* Properties of the grading pipeline *)

Last(s) == s[Len(s)]

CompileFailures == {"unsupported", "staging_error", "nonzero", "timeout", "error", "missing"}

StepOf(r) == StageSource(r) \/ Build(r) \/ RunTest(r) \/ SkipMissing(r) \/ Finish(r)

\* C4: when compilation fails for any reason (unsupported language, build timeout,
\* nonzero build exit, missing artifact, staging error), run_tests returns at once
\* with build_status 'failed' and grade 0: no test is run in the container and no
\* entry gains a status or a run_output, whatever the suite and max_grade are.
C4_CompileFailureIsTerminal ==
    \A r \in Requests :
        (compileLog[r] # <<>> /\ Last(compileLog[r]).event \in CompileFailures) =>
            /\ pc[r] = "compile_failed"
            /\ ~ENABLED StepOf(r)
            /\ report[r].build_status = "failed"
            /\ report[r].grade = 0
            /\ execLog[r] = <<>>
            /\ \A i \in DOMAIN tests[r].entries :
                 tests[r].entries[i].keys \cap {"status", "run_output"} = {}

\* the build exited 0 without an artifact, for a suite of two tests and max_grade 7.5
C4_Witness ==
    \E r \in Requests :
        /\ pc[r] = "compile_failed"
        /\ compileLog[r] # <<>> /\ Last(compileLog[r]).event = "missing"
        /\ tests[r].count = 2 /\ DOMAIN tests[r].entries = {1, 2}
        /\ maxGrade[r] = 75
        /\ report[r].grade = 0

\* a text without its leading and trailing whitespace, stated without str.strip:
\* the one stretch s[i..j] that has only whitespace before and after it and, if it
\* is not empty, begins and ends with something else
Trimmed(s) ==
    LET c == CHOOSE c \in (1..(Len(s) + 1)) \X (0..Len(s)) :
                /\ c[1] <= c[2] + 1
                /\ \A k \in 1..(c[1] - 1) : s[k] \in Whitespace
                /\ \A k \in (c[2] + 1)..Len(s) : s[k] \in Whitespace
                /\ c[1] <= c[2] => s[c[1]] \notin Whitespace /\ s[c[2]] \notin Whitespace
    IN  SubSeq(s, c[1], c[2])

\* C5: a test's status is 'success' if and only if its execution succeeded (no
\* timeout, no nonzero exit, no infrastructure error) and the actual output equals
\* the expected output once leading and trailing whitespace is removed from both;
\* whitespace inside is compared as it is.
C5_PassIffSucceededAndTrimmedEqual ==
    \A r \in Requests : \A k \in 1..Len(execLog[r]) :
        LET e == execLog[r][k]
            t == tests[r].entries[e.test]
        IN  /\ "status" \in t.keys
            /\ t.status = "success" <=>
                 (e.kind = "success" /\ Trimmed(e.stdout) = Trimmed(t.output))

\* expected "4\n", actual "4": a pass
C5_Witness ==
    \E r \in Requests : \E k \in 1..Len(execLog[r]) :
        /\ execLog[r][k].kind = "success"
        /\ execLog[r][k].stdout = <<"4">>
        /\ tests[r].entries[execLog[r][k].test].output = <<"4", "\n">>
        /\ tests[r].entries[execLog[r][k].test].status = "success"

\* the sum over the passing tests 1..c of weight * max_grade, in thousandths
RECURSIVE PassingTotal(_, _)
PassingTotal(r, c) ==
    IF c = 0 THEN 0
    ELSE PassingTotal(r, c - 1)
         + (IF c \in DOMAIN tests[r].entries /\ tests[r].entries[c].status = "success"
            THEN tests[r].entries[c].value * maxGrade[r] ELSE 0)

NumPassing(r) ==
    Cardinality({i \in DOMAIN tests[r].entries : tests[r].entries[i].status = "success"})

TwoEqualTests(r) ==
    /\ tests[r].count = 2 /\ DOMAIN tests[r].entries = {1, 2}
    /\ \A i \in {1, 2} : tests[r].entries[i].value = 50
    /\ maxGrade[r] = 100

\* C6: after a successful compile the grade is the sum, over exactly the passing
\* tests, of weight/100 * max_grade, rounded to two decimals (a hundredth nearest
\* to the sum); failing tests add nothing.  Two tests of weight 50 and max_grade
\* 10 give 10.00 when both pass and 5.00 when exactly one passes.
C6_GradeIsWeightedSum ==
    \A r \in Requests : pc[r] = "graded" =>
        LET exact == PassingTotal(r, tests[r].count)
            g == report[r].grade
        IN  /\ report[r].build_status = "success"
            /\ 10 * g - exact \in (-5)..5
            /\ (TwoEqualTests(r) /\ NumPassing(r) = 2) => g = 1000
            /\ (TwoEqualTests(r) /\ NumPassing(r) = 1) => g = 500

\* two tests of weight 50, max_grade 10, exactly one passes: 5.00
C6_Witness ==
    \E r \in Requests :
        /\ pc[r] = "graded" /\ TwoEqualTests(r) /\ NumPassing(r) = 1
        /\ Len(execLog[r]) = 2
        /\ report[r].grade = 500

ExecutedIds(r) == {execLog[r][k].test : k \in 1..Len(execLog[r])}

\* C7: a failed execution is local to its test.  A test whose execution timed out
\* or exited nonzero has status 'failed' and an error text (the timeout text for a
\* timeout); the loop goes on to the next id after every test, whatever its
\* outcome; a run that compiled is never stuck before it is graded, and when it is
\* graded every test of the suite with an id in 1..count was executed and has a
\* status.
C7_FailureIsLocal ==
    /\ [](\A r \in Requests :
            /\ \A k \in 1..Len(execLog[r]) :
                 LET e == execLog[r][k]
                     t == tests[r].entries[e.test]
                 IN  e.kind \in {"timeout", "nonzero"} =>
                       /\ t.status = "failed"
                       /\ "error" \in t.keys
                       /\ e.kind = "timeout" => t.error = "Execution timed out"
                       /\ e.kind = "nonzero" => t.error = "Execution error"
            /\ pc[r] = "running" => ENABLED StepOf(r)
            /\ pc[r] = "graded" =>
                 /\ ExecutedIds(r) = DOMAIN tests[r].entries \cap 1..tests[r].count
                 /\ \A i \in ExecutedIds(r) : "status" \in tests[r].entries[i].keys)
    /\ [][\A r \in Requests :
            (pc[r] = "running" /\ <<pc[r], idx[r]>>' # <<pc[r], idx[r]>>) =>
                \/ pc'[r] = "running" /\ idx'[r] = idx[r] + 1
                \/ pc'[r] = "graded" /\ idx[r] = tests[r].count + 1 /\ idx'[r] = idx[r]]_vars

\* the first test timed out, the second one was still run, passed, and was graded
C7_Witness ==
    \E r \in Requests :
        /\ pc[r] = "graded"
        /\ Len(execLog[r]) = 2
        /\ execLog[r][1].kind = "timeout" /\ execLog[r][1].test = 1
        /\ tests[r].entries[1].status = "failed"
        /\ tests[r].entries[1].error = "Execution timed out"
        /\ tests[r].entries[2].status = "success"
        /\ report[r].grade > 0

\* C8: requests in flight together do not collide on staging paths: no file staged
\* by one request (source, build output, input) is written by another, every build
\* compiles the source of its own request and every run executes the artifact of
\* its own request.
C8_NoStagingCollision ==
    /\ \A p \in DOMAIN writers : Cardinality(writers[p]) <= 1
    /\ \A r \in Requests :
         /\ \A k \in 1..Len(compileLog[r]) : compileLog[r][k].source = r
         /\ \A k \in 1..Len(execLog[r]) :
              execLog[r][k].kind \in {"success", "nonzero", "timeout"} => execLog[r][k].ran = r

PcOrder ==
    {<<"pending", "compiling">>, <<"pending", "compile_failed">>, <<"pending", "running">>,
     <<"compiling", "compile_failed">>, <<"compiling", "running">>,
     <<"running", "graded">>}

\* C9: one run goes Pending -> Compiling -> (CompileFailed | Compiled) ->
\* Running(1..count) -> Graded.  compile_code is called once, and before any
\* execution, which happens only after it succeeded; the tests are executed one at
\* a time in strictly ascending order of id, so none is executed twice and nothing
\* is retried after a failure or a timeout.
C9_StepsOnceAndInOrder ==
    /\ [](\A r \in Requests :
            /\ Len(compileLog[r]) = (IF pc[r] \in {"absent", "pending"} THEN 0 ELSE 1)
            /\ execLog[r] # <<>> =>
                 /\ pc[r] \in {"running", "graded"}
                 /\ compileLog[r][1].event = "ok"
            /\ \A k \in 1..Len(execLog[r]) : \A l \in 1..Len(execLog[r]) :
                 k < l => execLog[r][k].test < execLog[r][l].test
            /\ \A k \in 1..Len(execLog[r]) : execLog[r][k].test \in 1..tests[r].count)
    /\ [][\A r \in Requests :
            /\ pc'[r] # pc[r] => <<pc[r], pc'[r]>> \in PcOrder
            /\ execLog'[r] # execLog[r] =>
                 /\ pc[r] = "running"
                 /\ Len(execLog'[r]) = Len(execLog[r]) + 1
                 /\ SubSeq(execLog'[r], 1, Len(execLog[r])) = execLog[r]
            /\ compileLog'[r] # compileLog[r] => pc[r] \in {"pending", "compiling"}]_vars

\* a run whose first test failed: it was not run again, the second one followed
C9_Witness ==
    \E r \in Requests :
        /\ pc[r] = "graded"
        /\ Len(compileLog[r]) = 1
        /\ Len(execLog[r]) = 2
        /\ execLog[r][1].test = 1 /\ execLog[r][1].kind = "nonzero"
        /\ execLog[r][2].test = 2

\* the files in the staging directory that request r wrote
StagedBy(r) == {p \in DOMAIN fs : r \in writers[p]}

\* C13: everything staged for a grading run is released when the run ends: once
\* run_tests has returned (the build failed, or the suite was graded) the source
\* file, the compiled artifact and every input file that the run staged have
\* been deleted.
C13_StagedFilesReleased ==
    \A r \in Requests : pc[r] \in {"compile_failed", "graded"} => StagedBy(r) = {}

\* C14: run_tests treats the caller's suite as an immutable value: after the call
\* the suite that was passed in (its count and every field of every test) is as it
\* was before the call, and the outcomes (run_output, status, error) are in the
\* returned report only.  (tests[r] is the caller's suite after the call: the
\* report's entries are the same objects.)
C14_CallerSuiteUnchanged ==
    \A r \in Requests : pc[r] \in {"compile_failed", "graded"} => tests[r] = tests0[r]

\* C15: every container invocation the pipeline issues, build or run, in every
\* language, has networking disabled and carries an explicit memory cap and an
\* explicit CPU cap; every run invocation executes as the unprivileged sandbox
\* user with the code and the input mounted read-only; a read-write mount occurs
\* in build invocations only.
C15_ContainerRestricted ==
    \A r \in Requests : \A k \in 1..Len(cmds[r]) :
        LET c == cmds[r][k]
        IN  /\ {"network", "memory", "cpus"} \subseteq DOMAIN c.flags
            /\ c.flags.network = "none"
            /\ c.flags.memory = 128
            /\ c.flags.cpus = 1
            /\ c.phase = "run" =>
                 /\ "u" \in DOMAIN c.flags
                 /\ c.flags.u = "coderunner"
                 /\ {m.target : m \in c.mounts} = {"/exec", "/input"}
                 /\ \A m \in c.mounts : m.mode = "ro"
            /\ (\E m \in c.mounts : m.mode = "rw") => c.phase = "build"

\* a Java submission was built and its two tests were run
C15_Witness ==
    \E r \in Requests :
        /\ lang[r] = "java" /\ pc[r] = "graded"
        /\ Len(cmds[r]) = 3
        /\ cmds[r][1].phase = "build" /\ cmds[r][1].image = "java-compiler:latest"
        /\ cmds[r][2].phase = "run" /\ cmds[r][3].phase = "run"

FailedNow(r) ==
    {execLog[r][k].test : k \in {l \in 1..Len(execLog[r]) : execLog[r][l].kind # "success"}}

\* C22: in the report of any run_tests call a test outcome carries an error text
\* if and only if the execution of that test failed in this call; an outcome
\* with status 'success' never carries one, also when the suite is graded again
\* after a run in which the test failed.
C22_ErrorIffFailedInThisCall ==
    \A r \in Requests : pc[r] \in {"compile_failed", "graded"} =>
        \A i \in DOMAIN tests[r].entries :
            LET t == tests[r].entries[i]
            IN  /\ "error" \in t.keys <=> i \in FailedNow(r)
                /\ ("status" \in t.keys /\ t.status = "success") => "error" \notin t.keys

====
